---- MODULE Spec2Model ----
(***************************************************************************)
(* Model of cmd/kubeadm/app/phases/certs/certs.go: CreatePKIAssets, the    *)
(* load-or-create provisioning of the CA pair and the API server pair in   *)
(* a PKI directory, and the assembly of the API server certificate's       *)
(* subject alternative names.                                              *)
(***************************************************************************)
EXTENDS Integers, Sequences, FiniteSets, TLC

(***************************************************************************)
(* Bounds of the model.                                                    *)
(***************************************************************************)
\* number of invocations of CreatePKIAssets in one behaviour
MaxRuns == 2
\* longest cfg.API.ExternalDNSNames list drawn for the SAN assembly check
MaxDNSNames == 2
\* longest cfg.API.AdvertiseAddresses list drawn for the SAN assembly check
MaxAddresses == 2

(***************************************************************************)
(* Sequence helpers.                                                       *)
(***************************************************************************)
Range(s) == {s[i] : i \in 1..Len(s)}

SeqsUpTo(S, n) == UNION {[1..k -> S] : k \in 0..n}

Min(a, b) == IF a < b THEN a ELSE b

Max(a, b) == IF a > b THEN a ELSE b

RECURSIVE Pow2(_)
Pow2(n) == IF n = 0 THEN 1 ELSE 2 * Pow2(n - 1)

(***************************************************************************)
(* net.IP: a byte sequence of length 4 or 16; the nil IP is the empty      *)
(* sequence.  An address literal is modelled as the sequence of its        *)
(* dot-separated decimal fields, a CIDR literal as such a sequence and a   *)
(* prefix length.                                                          *)
(***************************************************************************)
NilIP == <<>>

v4InV6Prefix == <<0, 0, 0, 0, 0, 0, 0, 0, 0, 0, 255, 255>>

\* net.ParseIP on a dotted literal: four fields, each 0..255; the result is
\* the 16-byte (IPv4-in-IPv6) form, nil when the literal does not parse.
ParseIP(a) ==
    IF Len(a) = 4 /\ \A i \in 1..4 : a[i] \in 0..255
    THEN v4InV6Prefix \o a
    ELSE NilIP

\* net.IP.To4: the 4-byte form of an IPv4 address, nil otherwise.
To4(ip) ==
    IF Len(ip) = 4 THEN ip
    ELSE IF Len(ip) = 16 /\ SubSeq(ip, 1, 12) = v4InV6Prefix THEN SubSeq(ip, 13, 16)
    ELSE NilIP

\* line 157 comparing the byte slices instead of calling Equal
IPEqual_Bytes(x, y) == x = y

\* net.IP.Equal: equality by value, a 4-byte and a 16-byte form of the same
\* IPv4 address are equal.
IPEqual(x, y) ==
    IF Len(x) = Len(y) THEN x = y
    ELSE IF Len(x) = 4 /\ Len(y) = 16 THEN To4(y) = x
    ELSE IF Len(x) = 16 /\ Len(y) = 4 THEN To4(x) = y
    ELSE FALSE

\* number of network bits of octet i under a prefix of the given length
OctetBits(i, bits) == Max(0, Min(8, bits - 8 * (i - 1)))

\* ip.Mask(mask) on a 4-byte address
MaskIP(ip4, bits) ==
    [i \in 1..4 |-> ip4[i] - (ip4[i] % Pow2(8 - OctetBits(i, bits)))]

\* net.ParseCIDR: the network (masked 4-byte address and prefix length), or
\* an error when the address or the prefix length does not parse.
ParseCIDR(c) ==
    IF ParseIP(c.addr) = NilIP \/ c.bits \notin 0..32
    THEN [err |-> TRUE, IP |-> NilIP, bits |-> 0]
    ELSE [err |-> FALSE, IP |-> MaskIP(To4(ParseIP(c.addr)), c.bits), bits |-> c.bits]

\* net.IPNet.Contains
Contains(n, ip) ==
    /\ To4(ip) # NilIP
    /\ MaskIP(To4(ip), n.bits) = n.IP

\* the address `index` above a 4-byte base address, with carry; over is set
\* when the sum leaves the 32-bit range
AddIPOffset(ip4, index) ==
    LET s4 == ip4[4] + index
        s3 == ip4[3] + (s4 \div 256)
        s2 == ip4[2] + (s3 \div 256)
        s1 == ip4[1] + (s2 \div 256)
    IN  [ip |-> <<s1 % 256, s2 % 256, s3 % 256, s4 % 256>>, over |-> s1 > 255]

\* ipallocator.GetIndexedIP: the address at the given index of the subnet,
\* an error when it falls outside the subnet.
GetIndexedIP(n, index) ==
    LET r == AddIPOffset(n.IP, index)
    IN  IF r.over \/ ~Contains(n, r.ip)
        THEN [err |-> TRUE, ip |-> NilIP]
        ELSE [err |-> FALSE, ip |-> r.ip]

(***************************************************************************)
(* SAN assembly, CreatePKIAssets lines 44-78.                              *)
(***************************************************************************)
\* os.Hostname() failed
NoHostname == "<hostname error>"

\* index of the API server's virtual IP in the service subnet
APIServerVIPIndex == 1

internalAPIServerFQDN(cfg) ==
    << "kubernetes",
       "kubernetes.default",
       "kubernetes.default.svc",
       "kubernetes.default.svc." \o cfg.DNSDomain >>

\* lines 61-67 without the else branch: a literal that does not parse is
\* skipped
RECURSIVE ParseAddresses_Skip(_)
ParseAddresses_Skip(as) ==
    IF as = <<>> THEN [err |-> FALSE, IPs |-> <<>>]
    ELSE LET rest == ParseAddresses_Skip(Tail(as))
         IN  [err |-> FALSE,
              IPs |-> IF ParseIP(Head(as)) = NilIP THEN rest.IPs
                      ELSE <<ParseIP(Head(as))>> \o rest.IPs]

\* the IPs of the advertised addresses, in order, up to the first literal
\* that does not parse
RECURSIVE ParseAddresses(_)
ParseAddresses(as) ==
    IF as = <<>> THEN [err |-> FALSE, IPs |-> <<>>]
    ELSE IF ParseIP(Head(as)) = NilIP THEN [err |-> TRUE, IPs |-> <<>>]
    ELSE LET rest == ParseAddresses(Tail(as))
         IN  [err |-> rest.err,
              IPs |-> IF rest.err THEN <<>> ELSE <<ParseIP(Head(as))>> \o rest.IPs]

NoAltNames == [DNSNames |-> <<>>, IPs |-> <<>>]

\* line 58 assigning the internal names instead of appending them
AltDNSNames_Overwritten(cfg, hostname) == internalAPIServerFQDN(cfg)

\* lines 57-58: the hostname and the internal names appended to the external
\* DNS names
AltDNSNames(cfg, hostname) ==
    (cfg.ExternalDNSNames \o <<hostname>>) \o internalAPIServerFQDN(cfg)

\* the alt names of the API server certificate, or the error of the first
\* step that fails
AssembleAltNames(cfg, hostname) ==
    LET addrs == ParseAddresses(cfg.AdvertiseAddresses)
        n     == ParseCIDR(cfg.ServiceSubnet)
        vip   == GetIndexedIP(n, APIServerVIPIndex)
    IN  IF hostname = NoHostname THEN [err |-> "InvalidHostname", altNames |-> NoAltNames]
        ELSE IF addrs.err THEN [err |-> "InvalidIPLiteral", altNames |-> NoAltNames]
        ELSE IF n.err THEN [err |-> "InvalidCIDR", altNames |-> NoAltNames]
        ELSE IF vip.err THEN [err |-> "AddressAllocationFailed", altNames |-> NoAltNames]
        ELSE [err |-> "nil",
              altNames |-> [DNSNames |-> AltDNSNames(cfg, hostname),
                            IPs |-> addrs.IPs \o <<vip.ip>>]]

(***************************************************************************)
(* Certificates, keys and the files of the PKI directory.                  *)
(*                                                                         *)
(* A private key is identified by a number; a certificate carries the      *)
(* number of its public key (pub) and of the key that signed it (signer).  *)
(***************************************************************************)
NilCert == [nil |-> TRUE]

NilKey == 0

\* the certificate verifies under the public key of the signer certificate
SignedBy(cert, signerCert) == cert.signer = signerCert.pub

\* kubeadmconstants.CACertAndKeyBaseName, APIServerCertAndKeyBaseName
CACertAndKeyBaseName == "ca"

APIServerCertAndKeyBaseName == "apiserver"

\* pkiutil.pathsForCertAndKey
CertPath(name) == name \o ".crt"

KeyPath(name) == name \o ".key"

Files ==
    { KeyPath(CACertAndKeyBaseName), CertPath(CACertAndKeyBaseName),
      KeyPath(APIServerCertAndKeyBaseName), CertPath(APIServerCertAndKeyBaseName) }

\* contents of a file: absent, unparseable bytes, or one PEM block
NoFile == [block |-> "absent"]

Garbage == [block |-> "garbage"]

EncodeCertPEM(cert) == [block |-> "CERTIFICATE", cert |-> cert]

EncodePrivateKeyPEM(key) == [block |-> "RSA PRIVATE KEY", key |-> key]

EmptyStore == [f \in Files |-> NoFile]

\* pkiutil.CertOrKeyExist: at least one of the two files exists
CertOrKeyExist(dir, name) ==
    dir[CertPath(name)] # NoFile \/ dir[KeyPath(name)] # NoFile

\* pkiutil.TryLoadCertAndKeyFromDisk: both files must exist and parse
TryLoadCertAndKeyFromDisk(dir, name) ==
    LET c == dir[CertPath(name)]
        k == dir[KeyPath(name)]
    IN  IF c.block = "CERTIFICATE" /\ k.block = "RSA PRIVATE KEY"
        THEN [err |-> FALSE, cert |-> c.cert, key |-> k.key]
        ELSE [err |-> TRUE, cert |-> NilCert, key |-> NilKey]

\* pkiutil.NewCertificateAuthority: a self-signed CA certificate for a new key
NewCertificateAuthority(key) ==
    [pub |-> key, signer |-> key, IsCA |-> TRUE, CommonName |-> "kubernetes",
     DNSNames |-> <<>>, IPs |-> <<>>, Usages |-> {}]

\* the IP SANs as the certificate encodes them: IPv4 addresses in 4 bytes
EncodeIPs(ips) ==
    [i \in 1..Len(ips) |-> IF To4(ips[i]) # NilIP THEN To4(ips[i]) ELSE ips[i]]

\* pkiutil.NewCertAndKey: a certificate for a new key, signed with caKey
NewCertAndKey(signerCert, signerKey, config, key) ==
    [pub |-> key, signer |-> signerKey, IsCA |-> FALSE,
     CommonName |-> config.CommonName,
     DNSNames |-> config.AltNames.DNSNames,
     IPs |-> EncodeIPs(config.AltNames.IPs),
     Usages |-> config.Usages]

(***************************************************************************)
(* The decisions of CreatePKIAssets.                                       *)
(***************************************************************************)
\* line 87: the CA pair could not be loaded
CALoadFailed(l) == l.err \/ l.cert = NilCert \/ l.key = NilKey

\* the check of line 115 left out
APIServerLoadFailed_Unchecked(l) == FALSE

\* line 115: the API server pair could not be loaded
APIServerLoadFailed(l) == l.err \/ l.cert = NilCert \/ l.key = NilKey

\* the check of line 92 inverted
NotCA_Inverted(cert) == cert.IsCA

\* the check of line 92 left out
NotCA_Unchecked(cert) == FALSE

\* line 92: the loaded certificate is not a CA
NotCA(cert) == ~cert.IsCA

\* lines 123-127 without the AltNames field
APIServerCertConfig_NoAltNames(names) ==
    [CommonName |-> "kube-apiserver", AltNames |-> NoAltNames, Usages |-> {"ServerAuth"}]

\* lines 123-127 without the Usages field
APIServerCertConfig_NoUsages(names) ==
    [CommonName |-> "kube-apiserver", AltNames |-> names, Usages |-> {}]

\* lines 123-127: the certificate request of the API server
APIServerCertConfig(names) ==
    [CommonName |-> "kube-apiserver", AltNames |-> names, Usages |-> {"ServerAuth"}]

\* checkAltNamesExist: the certificate's SANs cover the required alt names
checkAltNamesExist(IPs, DNSNames, names) ==
    /\ \A i \in 1..Len(names.DNSNames) : names.DNSNames[i] \in Range(DNSNames)
    /\ \A i \in 1..Len(names.IPs) :
          \E j \in 1..Len(IPs) : IPEqual(IPs[j], names.IPs[i])

(***************************************************************************)
(* Inputs: configurations and host names of the runs, and the PKI          *)
(* directories a first run may find.                                       *)
(***************************************************************************)
GoodCfg ==
    [ExternalDNSNames |-> <<"example.com">>,
     DNSDomain |-> "cluster.local",
     AdvertiseAddresses |-> << <<10, 0, 0, 5>> >>,
     ServiceSubnet |-> [addr |-> <<10, 96, 0, 0>>, bits |-> 12]]

\* configurations and host names drawn by the runs of CreatePKIAssets
RunInputs ==
    { <<GoodCfg, "node1">>,
      <<[GoodCfg EXCEPT !.ExternalDNSNames = <<"example.com", "api.example.com">>], "node1">>,
      <<[GoodCfg EXCEPT !.AdvertiseAddresses = << <<10, 0, 0, 5>>, <<10, 0, 0, 6>> >>], "node1">>,
      <<[ExternalDNSNames |-> <<"kubernetes">>,
         DNSDomain |-> "example.org",
         AdvertiseAddresses |-> <<>>,
         ServiceSubnet |-> [addr |-> <<192, 168, 7, 9>>, bits |-> 31]], "kubernetes">>,
      <<GoodCfg, NoHostname>>,
      <<[GoodCfg EXCEPT !.AdvertiseAddresses = << <<10, 0, 0, 256>> >>], "node1">>,
      <<[GoodCfg EXCEPT !.ServiceSubnet = [addr |-> <<10, 96, 0, 0>>, bits |-> 33]], "node1">>,
      <<[GoodCfg EXCEPT !.ServiceSubnet = [addr |-> <<10, 96, 0, 1>>, bits |-> 32]], "node1">> }

\* keys of the material found by the first run
OldCAKeys == {1, 2}

OldServerKey == Cardinality(OldCAKeys) + 1

\* a server certificate signed by the first of the old CA keys
OldServerCert(names) ==
    NewCertAndKey(NewCertificateAuthority(1), 1, APIServerCertConfig(names), OldServerKey)

InitStores ==
    { [f \in Files |->
          CASE f = KeyPath(CACertAndKeyBaseName) -> caKeyFile
            [] f = CertPath(CACertAndKeyBaseName) -> caCertFile
            [] f = KeyPath(APIServerCertAndKeyBaseName) -> apiKeyFile
            [] f = CertPath(APIServerCertAndKeyBaseName) -> apiCertFile] :
        <<caKeyFile, caCertFile, apiKeyFile, apiCertFile>> \in
          UNION { {NoFile, Garbage, EncodePrivateKeyPEM(k)}
                    \X {NoFile, Garbage, EncodeCertPEM(NewCertificateAuthority(k)),
                        EncodeCertPEM([NewCertificateAuthority(k) EXCEPT !.IsCA = FALSE])}
                    \X {NoFile, Garbage, EncodePrivateKeyPEM(OldServerKey)}
                    \X {NoFile, Garbage,
                        EncodeCertPEM(OldServerCert(AssembleAltNames(GoodCfg, "node1").altNames)),
                        EncodeCertPEM(OldServerCert([DNSNames |-> <<"old.example.com">>,
                                                     IPs |-> <<>>]))}
                  : k \in OldCAKeys } }

(***************************************************************************)
(* State.                                                                  *)
(***************************************************************************)
VARIABLES
    store,      \* the PKI directory: file name -> contents
    store0,     \* the PKI directory before the first run
    pc,         \* position of the run in progress, "idle" between runs
    runs,       \* number of runs started
    cfg,        \* configuration of the current (or last) run
    hostname,   \* result of os.Hostname() in that run
    altNames,   \* alt names assembled by that run
    caCert,     \* CreatePKIAssets' locals
    caKey,
    apiCert,
    apiKey,
    res,        \* error returned by the last run: "nil", an error, "running", "crashed"
    out,        \* per role, what the run did: NotRun, Reused, Generated, Failed
    pre,        \* the PKI directory when the current (or last) run started
    prev,       \* res and out of the run before
    nextKey,    \* the next key the key generator produces
    covered     \* result of checkAltNamesExist, "unchecked" while it was not called

vars ==
    <<store, store0, pc, runs, cfg, hostname, altNames, caCert, caKey, apiCert,
      apiKey, res, out, pre, prev, nextKey, covered>>

NoOut == [ca |-> "NotRun", api |-> "NotRun"]

locals == <<caCert, caKey, apiCert, apiKey>>

ClearLocals ==
    /\ caCert' = NilCert
    /\ caKey' = NilKey
    /\ apiCert' = NilCert
    /\ apiKey' = NilKey

Init ==
    /\ store \in InitStores
    /\ store0 = store
    /\ pc = "idle"
    /\ runs = 0
    /\ cfg = GoodCfg
    /\ hostname = "node1"
    /\ altNames = NoAltNames
    /\ caCert = NilCert
    /\ caKey = NilKey
    /\ apiCert = NilCert
    /\ apiKey = NilKey
    /\ res = "none"
    /\ out = NoOut
    /\ pre = store
    /\ prev = [res |-> "none", out |-> NoOut]
    /\ nextKey = OldServerKey + 1
    /\ covered = "unchecked"

\* the run returns err
Return(err) ==
    /\ pc' = "idle"
    /\ res' = err
    /\ ClearLocals

(***************************************************************************)
(* CreatePKIAssets, one action per stretch of code between two accesses    *)
(* to the PKI directory.                                                   *)
(***************************************************************************)
\* lines 43-78: a run starts with configuration c on a host whose name
\* lookup yields h, and assembles the alt names
BeginRun(c, h) ==
    /\ pc = "idle"
    /\ runs < MaxRuns
    /\ runs' = runs + 1
    /\ prev' = [res |-> res, out |-> out]
    /\ pre' = store
    /\ cfg' = c
    /\ hostname' = h
    /\ out' = NoOut
    /\ LET a == AssembleAltNames(c, h)
       IN  /\ altNames' = a.altNames
           /\ IF a.err # "nil"
              THEN Return(a.err)
              ELSE /\ pc' = "ca"
                   /\ res' = "running"
                   /\ ClearLocals
    /\ UNCHANGED <<store, store0, nextKey, covered>>

\* line 84 probing for the certificate file alone
CAExists_CertOnly == store[CertPath(CACertAndKeyBaseName)] # NoFile

\* line 84 probing for both files instead of either
CAExists_Both ==
    /\ store[CertPath(CACertAndKeyBaseName)] # NoFile
    /\ store[KeyPath(CACertAndKeyBaseName)] # NoFile

\* line 84
CAExists == CertOrKeyExist(store, CACertAndKeyBaseName)

\* lines 92-94 replacing a non-CA certificate instead of returning the error
CAExisting_Replace ==
    /\ pc = "ca"
    /\ CAExists
    /\ LET l == TryLoadCertAndKeyFromDisk(store, CACertAndKeyBaseName)
       IN  IF CALoadFailed(l)
           THEN /\ Return("CouldNotBeLoaded")
                /\ out' = [out EXCEPT !.ca = "Failed"]
                /\ UNCHANGED store
           ELSE IF NotCA(l.cert)
           THEN /\ store' = [store EXCEPT ![CertPath(CACertAndKeyBaseName)] = NoFile,
                                          ![KeyPath(CACertAndKeyBaseName)] = NoFile]
                /\ UNCHANGED <<locals, res, out, pc>>
           ELSE /\ caCert' = l.cert
                /\ caKey' = l.key
                /\ out' = [out EXCEPT !.ca = "Reused"]
                /\ pc' = "apiserver"
                /\ UNCHANGED <<apiCert, apiKey, res, store>>
    /\ UNCHANGED <<store0, runs, cfg, hostname, altNames, pre, prev, nextKey, covered>>

\* lines 84-96: ca.crt or ca.key exists: load the pair, require a CA
CAExisting ==
    /\ pc = "ca"
    /\ CAExists
    /\ LET l == TryLoadCertAndKeyFromDisk(store, CACertAndKeyBaseName)
       IN  IF CALoadFailed(l)
           THEN /\ Return("CouldNotBeLoaded")
                /\ out' = [out EXCEPT !.ca = "Failed"]
           ELSE IF NotCA(l.cert)
           THEN /\ Return("NotACertificateAuthority")
                /\ out' = [out EXCEPT !.ca = "Failed"]
           ELSE /\ caCert' = l.cert
                /\ caKey' = l.key
                /\ out' = [out EXCEPT !.ca = "Reused"]
                /\ pc' = "apiserver"
                /\ UNCHANGED <<apiCert, apiKey, res>>
    /\ UNCHANGED <<store, store0, runs, cfg, hostname, altNames, pre, prev, nextKey, covered>>

\* lines 97-103 with the error of line 100 not returned: the run goes on
\* without a CA
CAGenerate_ErrorIgnored ==
    /\ pc = "ca"
    /\ ~CAExists
    /\ \/ /\ out' = [out EXCEPT !.ca = "Failed"]
          /\ pc' = "apiserver"
          /\ UNCHANGED <<locals, res, nextKey>>
       \/ /\ caKey' = nextKey
          /\ caCert' = NewCertificateAuthority(nextKey)
          /\ nextKey' = nextKey + 1
          /\ pc' = "caWriteKey"
          /\ UNCHANGED <<apiCert, apiKey, res, out>>
    /\ UNCHANGED <<store, store0, runs, cfg, hostname, altNames, pre, prev, covered>>

\* lines 97-103: neither file exists: generate the CA pair, which may fail
CAGenerate ==
    /\ pc = "ca"
    /\ ~CAExists
    /\ \/ /\ Return("SigningFailed")
          /\ out' = [out EXCEPT !.ca = "Failed"]
          /\ UNCHANGED nextKey
       \/ /\ caKey' = nextKey
          /\ caCert' = NewCertificateAuthority(nextKey)
          /\ nextKey' = nextKey + 1
          /\ pc' = "caWriteKey"
          /\ UNCHANGED <<apiCert, apiKey, res, out>>
    /\ UNCHANGED <<store, store0, runs, cfg, hostname, altNames, pre, prev, covered>>

\* pkiutil.WriteCertAndKey, first write: the key file.  A failed write
\* leaves no file or an unusable one.
WriteKey(name, key, next) ==
    \/ /\ store' = [store EXCEPT ![KeyPath(name)] = EncodePrivateKeyPEM(key)]
       /\ pc' = next
       /\ UNCHANGED <<locals, res, out>>
    \/ /\ \E f \in {store[KeyPath(name)], Garbage} :
             store' = [store EXCEPT ![KeyPath(name)] = f]
       /\ Return("PersistFailed")
       /\ out' = [out EXCEPT ![IF name = CACertAndKeyBaseName THEN "ca" ELSE "api"] = "Failed"]

\* pkiutil.WriteCertAndKey, second write: the certificate file
WriteCert(name, cert) ==
    \/ /\ store' = [store EXCEPT ![CertPath(name)] = EncodeCertPEM(cert)]
       /\ out' = [out EXCEPT ![IF name = CACertAndKeyBaseName THEN "ca" ELSE "api"] = "Generated"]
       /\ IF name = CACertAndKeyBaseName
          THEN /\ pc' = "apiserver"
               /\ UNCHANGED <<locals, res>>
          ELSE Return("nil")
    \/ /\ \E f \in {store[CertPath(name)], Garbage} :
             store' = [store EXCEPT ![CertPath(name)] = f]
       /\ Return("PersistFailed")
       /\ out' = [out EXCEPT ![IF name = CACertAndKeyBaseName THEN "ca" ELSE "api"] = "Failed"]

\* lines 104-107: save the generated CA pair
CAWriteKey ==
    /\ pc = "caWriteKey"
    /\ WriteKey(CACertAndKeyBaseName, caKey, "caWriteCert")
    /\ UNCHANGED <<store0, runs, cfg, hostname, altNames, pre, prev, nextKey, covered>>

\* lines 104-106 with the error of the save not returned: the run goes on
\* whatever the write left in ca.crt
CAWriteCert_ErrorIgnored ==
    /\ pc = "caWriteCert"
    /\ \E f \in {EncodeCertPEM(caCert), store[CertPath(CACertAndKeyBaseName)], Garbage} :
          store' = [store EXCEPT ![CertPath(CACertAndKeyBaseName)] = f]
    /\ out' = [out EXCEPT !.ca = "Generated"]
    /\ pc' = "apiserver"
    /\ UNCHANGED <<locals, res>>
    /\ UNCHANGED <<store0, runs, cfg, hostname, altNames, pre, prev, nextKey, covered>>

CAWriteCert ==
    /\ pc = "caWriteCert"
    /\ WriteCert(CACertAndKeyBaseName, caCert)
    /\ UNCHANGED <<store0, runs, cfg, hostname, altNames, pre, prev, nextKey, covered>>

\* line 112 probing for both files instead of either
APIServerExists_Both ==
    /\ store[CertPath(APIServerCertAndKeyBaseName)] # NoFile
    /\ store[KeyPath(APIServerCertAndKeyBaseName)] # NoFile

\* line 112
APIServerExists == CertOrKeyExist(store, APIServerCertAndKeyBaseName)

\* lines 112-119 repairing a pair that does not load: the files are removed
\* and the pair is generated anew
APIServerExisting_Repair ==
    /\ pc = "apiserver"
    /\ CertOrKeyExist(store, APIServerCertAndKeyBaseName)
    /\ LET l == TryLoadCertAndKeyFromDisk(store, APIServerCertAndKeyBaseName)
       IN  IF APIServerLoadFailed(l)
           THEN /\ store' = [store EXCEPT ![CertPath(APIServerCertAndKeyBaseName)] = NoFile,
                                          ![KeyPath(APIServerCertAndKeyBaseName)] = NoFile]
                /\ UNCHANGED <<pc, res, out, locals>>
           ELSE /\ Return("nil")
                /\ out' = [out EXCEPT !.api = "Reused"]
                /\ UNCHANGED store
    /\ UNCHANGED <<store0, runs, cfg, hostname, altNames, pre, prev, nextKey, covered>>

\* lines 112-119, 139-141: apiserver.crt or apiserver.key exists: load the
\* pair and use it
APIServerExisting ==
    /\ pc = "apiserver"
    /\ APIServerExists
    /\ LET l == TryLoadCertAndKeyFromDisk(store, APIServerCertAndKeyBaseName)
       IN  IF APIServerLoadFailed(l)
           THEN /\ Return("CouldNotBeLoaded")
                /\ out' = [out EXCEPT !.api = "Failed"]
           ELSE /\ Return("nil")
                /\ out' = [out EXCEPT !.api = "Reused"]
    /\ UNCHANGED <<store, store0, runs, cfg, hostname, altNames, pre, prev, nextKey, covered>>

\* lines 120-131 rolling back on failure: a CA pair written by this run is
\* removed again
APIServerGenerate_Rollback ==
    /\ pc = "apiserver"
    /\ ~APIServerExists
    /\ \/ /\ Return("SigningFailed")
          /\ out' = [out EXCEPT !.api = "Failed"]
          /\ store' = IF out.ca = "Generated"
                      THEN [store EXCEPT ![KeyPath(CACertAndKeyBaseName)] = NoFile,
                                         ![CertPath(CACertAndKeyBaseName)] = NoFile]
                      ELSE store
          /\ UNCHANGED nextKey
       \/ /\ apiKey' = nextKey
          /\ apiCert' = NewCertAndKey(caCert, caKey, APIServerCertConfig(altNames), nextKey)
          /\ nextKey' = nextKey + 1
          /\ pc' = "apiserverWriteKey"
          /\ UNCHANGED <<store, caCert, caKey, res, out>>
    /\ UNCHANGED <<store0, runs, cfg, hostname, altNames, pre, prev, covered>>

\* lines 120-131: neither file exists: generate the API server pair, signed
\* by the CA of this run, which may fail
APIServerGenerate ==
    /\ pc = "apiserver"
    /\ ~APIServerExists
    /\ \/ /\ Return("SigningFailed")
          /\ out' = [out EXCEPT !.api = "Failed"]
          /\ UNCHANGED nextKey
       \/ /\ apiKey' = nextKey
          /\ apiCert' = NewCertAndKey(caCert, caKey, APIServerCertConfig(altNames), nextKey)
          /\ nextKey' = nextKey + 1
          /\ pc' = "apiserverWriteKey"
          /\ UNCHANGED <<caCert, caKey, res, out>>
    /\ UNCHANGED <<store, store0, runs, cfg, hostname, altNames, pre, prev, covered>>

\* lines 133-141: save the generated API server pair and return
APIServerWriteKey ==
    /\ pc = "apiserverWriteKey"
    /\ WriteKey(APIServerCertAndKeyBaseName, apiKey, "apiserverWriteCert")
    /\ UNCHANGED <<store0, runs, cfg, hostname, altNames, pre, prev, nextKey, covered>>

APIServerWriteCert ==
    /\ pc = "apiserverWriteCert"
    /\ WriteCert(APIServerCertAndKeyBaseName, apiCert)
    /\ UNCHANGED <<store0, runs, cfg, hostname, altNames, pre, prev, nextKey, covered>>

\* the process dies in the middle of a run
Crash ==
    /\ pc # "idle"
    /\ pc' = "idle"
    /\ res' = "crashed"
    /\ ClearLocals
    /\ UNCHANGED <<store, store0, runs, cfg, hostname, altNames, out, pre, prev, nextKey, covered>>

Next ==
    \/ \E in \in RunInputs : BeginRun(in[1], in[2])
    \/ CAExisting
    \/ CAGenerate
    \/ CAWriteKey
    \/ CAWriteCert
    \/ APIServerExisting
    \/ APIServerGenerate
    \/ APIServerWriteKey
    \/ APIServerWriteCert
    \/ Crash

Spec == Init /\ [][Next]_vars

(***************************************************************************)
(* SAN assembly on its own: one run from an empty PKI directory, its       *)
(* configuration and host name drawn from all combinations of the pools    *)
(* below.                                                                  *)
(***************************************************************************)
DNSNamePool == {"example.com", "kubernetes", "node1"}

HostnamePool == {"node1", "kubernetes", NoHostname}

AddressPool == { <<10, 0, 0, 5>>, <<10, 96, 0, 1>>, <<10, 0, 0, 256>>, <<10, 0, 0>> }

SubnetPool ==
    { [addr |-> <<10, 96, 0, 0>>, bits |-> 12],
      [addr |-> <<10, 0, 0, 5>>, bits |-> 31],
      [addr |-> <<192, 168, 7, 9>>, bits |-> 24],
      [addr |-> <<10, 0, 0, 255>>, bits |-> 32],
      [addr |-> <<255, 255, 255, 255>>, bits |-> 32],
      [addr |-> <<10, 96, 0, 0>>, bits |-> 33],
      [addr |-> <<10, 96, 0>>, bits |-> 12] }

SANConfigs ==
    [ExternalDNSNames : SeqsUpTo(DNSNamePool, MaxDNSNames),
     DNSDomain : {"cluster.local", ""},
     AdvertiseAddresses : SeqsUpTo(AddressPool, MaxAddresses),
     ServiceSubnet : SubnetPool]

InitSAN ==
    /\ Init
    /\ store = EmptyStore

NextSAN ==
    /\ runs = 0
    /\ \E c \in SANConfigs, h \in HostnamePool : BeginRun(c, h)

SpecSAN == InitSAN /\ [][NextSAN]_vars

(***************************************************************************)
(* checkAltNamesExist on its own: the SANs of a certificate (apiCert) and  *)
(* the required alt names are drawn from the pools below, and the one step *)
(* applies the function to them.                                           *)
(***************************************************************************)
\* longest SAN list of the certificate handed to checkAltNamesExist
MaxSANs == 2

SANNamePool == {"example.com", "Example.com"}

\* 10.0.0.5 in its 4-byte and its 16-byte form, and 10.96.0.1
SANIPPool == { <<10, 0, 0, 5>>, ParseIP(<<10, 0, 0, 5>>), <<10, 96, 0, 1>> }

RequiredAltNames ==
    [DNSNames : UNION {[1..k -> SANNamePool] : k \in 0..2},
     IPs : UNION {[1..k -> SANIPPool] : k \in 0..2}]

InitVerify ==
    /\ store = EmptyStore
    /\ store0 = store
    /\ pc = "idle"
    /\ runs = 0
    /\ cfg = GoodCfg
    /\ hostname = "node1"
    /\ altNames \in RequiredAltNames
    /\ caCert = NilCert
    /\ caKey = NilKey
    /\ \E dns \in SeqsUpTo(SANNamePool, MaxSANs), ips \in SeqsUpTo(SANIPPool, MaxSANs) :
          apiCert = [OldServerCert(NoAltNames) EXCEPT !.DNSNames = dns, !.IPs = ips]
    /\ apiKey = OldServerKey
    /\ res = "none"
    /\ out = NoOut
    /\ pre = store
    /\ prev = [res |-> "none", out |-> NoOut]
    /\ nextKey = OldServerKey + 1
    /\ covered = "unchecked"

\* lines 145-168 applied to the SANs of apiCert and the required alt names
Verify ==
    /\ covered = "unchecked"
    /\ covered' = IF checkAltNamesExist(apiCert.IPs, apiCert.DNSNames, altNames)
                  THEN "true" ELSE "false"
    /\ UNCHANGED <<store, store0, pc, runs, cfg, hostname, altNames, caCert, caKey,
                   apiCert, apiKey, res, out, pre, prev, nextKey>>

NextVerify == Verify

SpecVerify == InitVerify /\ [][NextVerify]_vars

(***************************************************************************)
(* Vocabulary of the properties.                                           *)
(***************************************************************************)
AssemblyErrors ==
    {"InvalidHostname", "InvalidIPLiteral", "InvalidCIDR", "AddressAllocationFailed"}

\* the last run has returned (it did not crash)
Returned == pc = "idle" /\ runs > 0 /\ res # "crashed"

Succeeded == Returned /\ res = "nil"

BaseNames == {CACertAndKeyBaseName, APIServerCertAndKeyBaseName}

RoleOf(name) == IF name = CACertAndKeyBaseName THEN "ca" ELSE "api"

\* the run got as far as provisioning the pair of that name
Reached(name) ==
    /\ res \notin AssemblyErrors
    /\ name = APIServerCertAndKeyBaseName => out.ca \in {"Reused", "Generated"}

ExactlyOne(dir, name) ==
    (dir[KeyPath(name)] = NoFile) # (dir[CertPath(name)] = NoFile)

BothExist(dir, name) ==
    dir[KeyPath(name)] # NoFile /\ dir[CertPath(name)] # NoFile

NeitherExists(dir, name) ==
    dir[KeyPath(name)] = NoFile /\ dir[CertPath(name)] = NoFile

\* both files hold what their name promises
Loads(dir, name) ==
    /\ dir[KeyPath(name)].block = "RSA PRIVATE KEY"
    /\ dir[CertPath(name)].block = "CERTIFICATE"

SameFiles(d1, d2, name) ==
    /\ d1[KeyPath(name)] = d2[KeyPath(name)]
    /\ d1[CertPath(name)] = d2[CertPath(name)]

NoExistingFileTouched(before, after) ==
    \A f \in Files : before[f] # NoFile => after[f] = before[f]

BothGenerated == [ca |-> "Generated", api |-> "Generated"]

BothReused == [ca |-> "Reused", api |-> "Reused"]

(***************************************************************************)
(* C1.  From an empty PKI directory, a first run that meets no failure of  *)
(* its environment succeeds and reports Generated for both pairs; a second *)
(* run with a configuration whose alt names assemble then succeeds,        *)
(* reports Reused for both pairs and leaves every file as it was.          *)
(***************************************************************************)
C1_Idempotent ==
    /\ (Returned /\ runs = 1 /\ store0 = EmptyStore
          /\ res \notin AssemblyErrors \cup {"SigningFailed", "PersistFailed"})
       => (res = "nil" /\ out = BothGenerated)
    /\ (runs = 2 /\ store0 = EmptyStore /\ prev.res = "nil")
       => (/\ prev.out = BothGenerated
           /\ store = pre
           /\ (Returned /\ res \notin AssemblyErrors) => (res = "nil" /\ out = BothReused))

C1_Witness ==
    /\ Returned /\ runs = 2 /\ store0 = EmptyStore
    /\ prev.res = "nil" /\ prev.out = BothGenerated
    /\ res = "nil" /\ out = BothReused /\ store = pre

(***************************************************************************)
(* C2.  No step ever deletes or overwrites a file that exists, and a file  *)
(* of a role is written only in a run that found neither the key file nor  *)
(* the certificate file of that role.                                      *)
(***************************************************************************)
C2_NeverOverwrites ==
    [][\A name \in BaseNames : \A f \in {KeyPath(name), CertPath(name)} :
          store'[f] # store[f] => (store[f] = NoFile /\ NeitherExists(pre', name))]_vars

C2_Witness ==
    /\ Succeeded
    /\ out = [ca |-> "Reused", api |-> "Generated"]
    /\ store # pre
    /\ SameFiles(store, pre, CACertAndKeyBaseName)

(***************************************************************************)
(* C3.  As claimed: a run that starts with exactly one of a role's two     *)
(* files and gets as far as that role fails with the load error, and no    *)
(* file of the directory is created, modified or deleted by that run.      *)
(***************************************************************************)
C3_Original ==
    \A name \in BaseNames :
        (Returned /\ Reached(name) /\ ExactlyOne(pre, name))
        => (res = "CouldNotBeLoaded" /\ store = pre)

(***************************************************************************)
(* C3, amended.  A run that starts with exactly one of a role's two files  *)
(* fails, with the load error when it gets as far as that role; it never   *)
(* modifies or deletes an existing file and creates no file of that role;  *)
(* when the role is the CA it creates no file at all, when the role is the *)
(* API server it may have created CA files before.                         *)
(***************************************************************************)
C3_Amended ==
    \A name \in BaseNames :
        (runs > 0 /\ ExactlyOne(pre, name))
        => /\ NoExistingFileTouched(pre, store)
           /\ SameFiles(store, pre, name)
           /\ name = CACertAndKeyBaseName => store = pre
           /\ pc \notin {name \o "WriteKey", name \o "WriteCert"}
           /\ Returned => res # "nil"
           /\ (Returned /\ Reached(name))
              => (res = "CouldNotBeLoaded" /\ out[RoleOf(name)] = "Failed")

C3_Witness ==
    /\ Returned
    /\ ExactlyOne(pre, APIServerCertAndKeyBaseName)
    /\ out = [ca |-> "Generated", api |-> "Failed"]
    /\ res = "CouldNotBeLoaded"
    /\ store # pre

(***************************************************************************)
(* C4.  A run that finds a CA key and a CA certificate that both load,     *)
(* the certificate not being a CA, fails with NotACertificateAuthority     *)
(* once its alt names are assembled; it generates no CA pair and leaves    *)
(* the directory as it was.                                                *)
(***************************************************************************)
NonCAStored(dir) ==
    /\ Loads(dir, CACertAndKeyBaseName)
    /\ ~dir[CertPath(CACertAndKeyBaseName)].cert.IsCA

C4_CAValidityGate ==
    (runs > 0 /\ NonCAStored(pre))
    => /\ store = pre
       /\ pc \in {"idle", "ca"}
       /\ out.ca # "Generated"
       /\ (Returned /\ res \notin AssemblyErrors)
          => (res = "NotACertificateAuthority" /\ out = [ca |-> "Failed", api |-> "NotRun"])

C4_Witness ==
    /\ Returned
    /\ NonCAStored(pre)
    /\ res = "NotACertificateAuthority"
    /\ store = pre

(***************************************************************************)
(* C5.  A run that finds both files of a role, one of which does not       *)
(* parse, fails, with the load error when it gets as far as that role, and *)
(* the files of that role stay as they were.                               *)
(***************************************************************************)
C5_CorruptIsFatal ==
    \A name \in BaseNames :
        (runs > 0 /\ BothExist(pre, name) /\ ~Loads(pre, name))
        => /\ SameFiles(store, pre, name)
           /\ Returned => res # "nil"
           /\ (Returned /\ Reached(name))
              => (res = "CouldNotBeLoaded" /\ out[RoleOf(name)] = "Failed")

C5_Witness ==
    /\ Returned
    /\ BothExist(pre, APIServerCertAndKeyBaseName)
    /\ ~Loads(pre, APIServerCertAndKeyBaseName)
    /\ out = [ca |-> "Reused", api |-> "Failed"]
    /\ res = "CouldNotBeLoaded"

(***************************************************************************)
(* C6.  A run that starts from an empty directory, assembles its alt names *)
(* and meets no generation or write failure succeeds with all four files   *)
(* written: a self-signed CA certificate with the CA bit, and a server     *)
(* certificate signed by that new CA, with the ServerAuth usage and with   *)
(* exactly these SANs: the external DNS names, the hostname, the four      *)
(* internal names, every advertised IP and the address at index 1 of the   *)
(* service subnet (10.96.0.1 for 10.96.0.0/12).                            *)
(***************************************************************************)
ExpectedDNSNames(c, h) ==
    Range(c.ExternalDNSNames)
      \cup {h, "kubernetes", "kubernetes.default", "kubernetes.default.svc",
            "kubernetes.default.svc." \o c.DNSDomain}

\* the second address of the subnet: its network address with the last
\* octet one higher
SecondAddress(c) == [MaskIP(c.addr, c.bits) EXCEPT ![4] = @ + 1]

ExpectedIPs(c) == Range(c.AdvertiseAddresses) \cup {SecondAddress(c.ServiceSubnet)}

\* the addresses of a list of IPs, by value
IPValues(ips) == {To4(ips[i]) : i \in 1..Len(ips)}

StoredCert(name) == store[CertPath(name)].cert

StoredKey(name) == store[KeyPath(name)].key

C6_FreshProvisioning ==
    (Returned /\ pre = EmptyStore
       /\ res \notin AssemblyErrors \cup {"SigningFailed", "PersistFailed"})
    => /\ res = "nil"
       /\ out = BothGenerated
       /\ \A name \in BaseNames : Loads(store, name)
       /\ LET ca  == StoredCert(CACertAndKeyBaseName)
              api == StoredCert(APIServerCertAndKeyBaseName)
          IN  /\ ca.IsCA
              /\ SignedBy(ca, ca)
              /\ ca.pub = StoredKey(CACertAndKeyBaseName)
              /\ ca.pub \notin OldCAKeys
              /\ SignedBy(api, ca)
              /\ api.pub = StoredKey(APIServerCertAndKeyBaseName)
              /\ ~api.IsCA
              /\ "ServerAuth" \in api.Usages
              /\ Range(api.DNSNames) = ExpectedDNSNames(cfg, hostname)
              /\ IPValues(api.IPs) = ExpectedIPs(cfg)
              /\ cfg.ServiceSubnet = [addr |-> <<10, 96, 0, 0>>, bits |-> 12]
                 => <<10, 96, 0, 1>> \in IPValues(api.IPs)

C6_Witness ==
    /\ Succeeded
    /\ pre = EmptyStore
    /\ cfg = GoodCfg
    /\ out = BothGenerated
    /\ IPValues(StoredCert(APIServerCertAndKeyBaseName).IPs) = { <<10, 0, 0, 5>>, <<10, 96, 0, 1>> }

(***************************************************************************)
(* C7.  After every run that returns success, the server certificate in    *)
(* the directory is signed by the CA pair in the directory.                *)
(***************************************************************************)
C7_ServerSignedByStoredCA ==
    Succeeded
    => SignedBy(StoredCert(APIServerCertAndKeyBaseName), StoredCert(CACertAndKeyBaseName))

(***************************************************************************)
(* C8.  After every run that returns success, the server certificate in    *)
(* the directory covers the alt names assembled by that run: every         *)
(* required DNS name and every required IP is among its SANs.              *)
(***************************************************************************)
C8_ServerCoversAltNames ==
    Succeeded
    => checkAltNamesExist(StoredCert(APIServerCertAndKeyBaseName).IPs,
                          StoredCert(APIServerCertAndKeyBaseName).DNSNames,
                          altNames)

(***************************************************************************)
(* C9.  A run returns success only if both provisioning steps succeeded:   *)
(* then the key file and the certificate file of both roles exist and      *)
(* load, and the CA certificate has its CA bit set.                        *)
(***************************************************************************)
C9_SuccessMeansBothProvisioned ==
    Succeeded
    => /\ out.ca \in {"Reused", "Generated"}
       /\ out.api \in {"Reused", "Generated"}
       /\ \A name \in BaseNames : BothExist(store, name) /\ Loads(store, name)
       /\ StoredCert(CACertAndKeyBaseName).IsCA

C9_Witness ==
    /\ Succeeded
    /\ runs = 1
    /\ out = BothReused
    /\ store = store0

(***************************************************************************)
(* C10.  As claimed: for N external DNS names, M advertised addresses that *)
(* all parse and a service subnet of at least 2 addresses, the assembled   *)
(* alt names, duplicates collapsed, hold at least N+4 DNS names and at     *)
(* least M+1 IPs, the second address of the service subnet among them.     *)
(***************************************************************************)
LiteralParses(a) == Len(a) = 4 /\ \A i \in 1..4 : a[i] \in 0..255

WellFormedInput ==
    /\ runs = 1
    /\ hostname # NoHostname
    /\ \A i \in 1..Len(cfg.AdvertiseAddresses) : LiteralParses(cfg.AdvertiseAddresses[i])
    /\ LiteralParses(cfg.ServiceSubnet.addr)
    /\ cfg.ServiceSubnet.bits \in 0..31

C10_Original ==
    WellFormedInput
    => /\ res = "running"
       /\ Cardinality(Range(altNames.DNSNames)) >= Len(cfg.ExternalDNSNames) + 4
       /\ Cardinality(IPValues(altNames.IPs)) >= Len(cfg.AdvertiseAddresses) + 1
       /\ SecondAddress(cfg.ServiceSubnet) \in IPValues(altNames.IPs)

(***************************************************************************)
(* C10, amended.  For such a configuration the assembly succeeds and the   *)
(* assembled lists, duplicates counted, hold at least N+4 DNS names and at *)
(* least M+1 IPs, the second address of the service subnet among them;     *)
(* with duplicates collapsed at least the four internal names and that     *)
(* address remain.                                                         *)
(***************************************************************************)
C10_Amended ==
    WellFormedInput
    => /\ res = "running"
       /\ Len(altNames.DNSNames) >= Len(cfg.ExternalDNSNames) + 4
       /\ Len(altNames.IPs) >= Len(cfg.AdvertiseAddresses) + 1
       /\ SecondAddress(cfg.ServiceSubnet) \in IPValues(altNames.IPs)
       /\ Cardinality(Range(altNames.DNSNames)) >= 4
       /\ Cardinality(IPValues(altNames.IPs)) >= 1

C10_Witness ==
    /\ WellFormedInput
    /\ res = "running"
    /\ Len(cfg.ExternalDNSNames) = 2
    /\ Len(cfg.AdvertiseAddresses) = 2
    /\ Cardinality(Range(altNames.DNSNames)) < Len(cfg.ExternalDNSNames) + 4
    /\ Cardinality(IPValues(altNames.IPs)) < Len(cfg.AdvertiseAddresses) + 1

(***************************************************************************)
(* C11.  checkAltNamesExist returns true exactly when every required DNS   *)
(* name is, as the same string, among the certificate's DNS names and      *)
(* every required IP has the value of one of the certificate's IPs; so it  *)
(* is true of a SAN set against itself, false when a required name or IP   *)
(* is missing, and unchanged by reordering or duplicating the elements of  *)
(* either argument.                                                        *)
(***************************************************************************)
Reverse(s) == [i \in 1..Len(s) |-> s[Len(s) + 1 - i]]

Rotate(s) == IF s = <<>> THEN s ELSE Tail(s) \o <<Head(s)>>

ReorderAltNames(f(_), names) == [DNSNames |-> f(names.DNSNames), IPs |-> f(names.IPs)]

Doubled(s) == s \o s

C11_VerifierCorrect ==
    covered # "unchecked"
    => /\ (covered = "true") = (/\ Range(altNames.DNSNames) \subseteq Range(apiCert.DNSNames)
                              /\ IPValues(altNames.IPs) \subseteq IPValues(apiCert.IPs))
       /\ (altNames.DNSNames = apiCert.DNSNames /\ altNames.IPs = apiCert.IPs)
          => covered = "true"
       /\ (\/ \E n \in Range(altNames.DNSNames) : n \notin Range(apiCert.DNSNames)
           \/ \E ip \in IPValues(altNames.IPs) : ip \notin IPValues(apiCert.IPs))
          => covered = "false"
       /\ \A f \in {"reverse", "rotate", "double"} :
            LET g(s) == CASE f = "reverse" -> Reverse(s)
                          [] f = "rotate" -> Rotate(s)
                          [] f = "double" -> Doubled(s)
            IN  /\ checkAltNamesExist(g(apiCert.IPs), g(apiCert.DNSNames), altNames)
                     = (covered = "true")
                /\ checkAltNamesExist(apiCert.IPs, apiCert.DNSNames,
                                      ReorderAltNames(g, altNames)) = (covered = "true")

C11_Witness ==
    /\ covered = "true"
    /\ apiCert.IPs = << <<10, 96, 0, 1>>, ParseIP(<<10, 0, 0, 5>>) >>
    /\ altNames.IPs = << <<10, 0, 0, 5>>, <<10, 96, 0, 1>> >>
    /\ apiCert.DNSNames = <<"Example.com", "example.com">>
    /\ altNames.DNSNames = <<"example.com">>

(***************************************************************************)
(* C12.  The alt names are assembled before the directory is first         *)
(* probed: when the hostname lookup fails, an advertised address does not  *)
(* parse, the service subnet does not parse or its address at index 1      *)
(* lies outside the block, the run returns that error and the directory,   *)
(* whatever it holds, stays as it was; no CA pair is generated or written. *)
(***************************************************************************)
\* the assembly errors the inputs of the run call for
ApplicableErrors ==
    (IF hostname = NoHostname THEN {"InvalidHostname"} ELSE {})
    \cup (IF \E i \in 1..Len(cfg.AdvertiseAddresses) :
                ~LiteralParses(cfg.AdvertiseAddresses[i])
          THEN {"InvalidIPLiteral"} ELSE {})
    \cup (IF ~LiteralParses(cfg.ServiceSubnet.addr) \/ cfg.ServiceSubnet.bits \notin 0..32
          THEN {"InvalidCIDR"} ELSE {})
    \cup (IF LiteralParses(cfg.ServiceSubnet.addr) /\ cfg.ServiceSubnet.bits = 32
          THEN {"AddressAllocationFailed"} ELSE {})

C12_AssemblyBeforeProbe ==
    (runs > 0 /\ ApplicableErrors # {})
    => /\ pc = "idle"
       /\ res \in ApplicableErrors
       /\ out = NoOut
       /\ store = pre
       /\ caCert = NilCert /\ caKey = NilKey

C12_Witness ==
    /\ Returned
    /\ res = "AddressAllocationFailed"
    /\ NeitherExists(pre, CACertAndKeyBaseName)
    /\ BothExist(pre, APIServerCertAndKeyBaseName)
    /\ store = pre

(***************************************************************************)
(* C13.  When the CA step of a run fails (the pair is incomplete, corrupt  *)
(* or not a CA, or its generation or its saving fails), the run is over:   *)
(* the API server step is not attempted, the API server files stay as they *)
(* were and no API server certificate is generated.  The API server step   *)
(* only ever runs after a CA step that succeeded.                          *)
(***************************************************************************)
C13_CAFailureStopsRun ==
    /\ (runs > 0 /\ out.ca = "Failed")
       => /\ pc = "idle"
          /\ res \in {"CouldNotBeLoaded", "NotACertificateAuthority",
                      "SigningFailed", "PersistFailed"}
          /\ out.api = "NotRun"
          /\ apiCert = NilCert /\ apiKey = NilKey
          /\ SameFiles(store, pre, APIServerCertAndKeyBaseName)
    /\ (pc \in {"apiserver", "apiserverWriteKey", "apiserverWriteCert"} \/ out.api # "NotRun")
       => out.ca \in {"Reused", "Generated"}

C13_Witness ==
    /\ Returned
    /\ out = [ca |-> "Failed", api |-> "NotRun"]
    /\ res = "PersistFailed"
    /\ NeitherExists(pre, APIServerCertAndKeyBaseName)
    /\ NeitherExists(store, APIServerCertAndKeyBaseName)
    /\ store[KeyPath(CACertAndKeyBaseName)].block = "RSA PRIVATE KEY"

(***************************************************************************)
(* C14.  There is no rollback: when a run has generated and saved the CA   *)
(* pair and then fails in the API server step, the CA files it wrote are   *)
(* in the directory; the next run leaves them as they are and, once it     *)
(* gets to the CA step, reports Reused for that pair and generates none.   *)
(***************************************************************************)
CAThenServerFailure == [ca |-> "Generated", api |-> "Failed"]

C14_NoRollback ==
    /\ (Returned /\ out = CAThenServerFailure)
       => /\ res \in {"CouldNotBeLoaded", "SigningFailed", "PersistFailed"}
          /\ NeitherExists(pre, CACertAndKeyBaseName)
          /\ Loads(store, CACertAndKeyBaseName)
          /\ StoredCert(CACertAndKeyBaseName).IsCA
          /\ StoredCert(CACertAndKeyBaseName).pub = StoredKey(CACertAndKeyBaseName)
    /\ prev.out = CAThenServerFailure
       => /\ Loads(pre, CACertAndKeyBaseName)
          /\ SameFiles(store, pre, CACertAndKeyBaseName)
          /\ pc \notin {"caWriteKey", "caWriteCert"}
          /\ out.ca \in {"NotRun", "Reused"}
          /\ (Returned /\ res \notin AssemblyErrors) => out.ca = "Reused"
          /\ pc \in {"apiserver", "apiserverWriteKey", "apiserverWriteCert"}
             => (out.ca = "Reused" /\ caCert = pre[CertPath(CACertAndKeyBaseName)].cert
                                   /\ caKey = pre[KeyPath(CACertAndKeyBaseName)].key)

C14_Witness ==
    /\ Returned
    /\ prev = [res |-> "SigningFailed", out |-> CAThenServerFailure]
    /\ res = "nil"
    /\ out = [ca |-> "Reused", api |-> "Generated"]
    /\ SameFiles(store, pre, CACertAndKeyBaseName)
    /\ SignedBy(StoredCert(APIServerCertAndKeyBaseName), pre[CertPath(CACertAndKeyBaseName)].cert)

(***************************************************************************)
(* C15.  A crash between the two writes that save a generated pair leaves  *)
(* exactly one of the pair's files; a run that starts with exactly one     *)
(* file of a pair never takes the pair as loaded: it leaves that state in  *)
(* place, fails with the load error once it gets to that role, and no run  *)
(* returns success while only one of the two files of a pair exists.       *)
(***************************************************************************)
\* the pair whose certificate write is pending at pc
PendingPair ==
    IF pc = "caWriteCert" THEN CACertAndKeyBaseName ELSE APIServerCertAndKeyBaseName

HalfWrittenIsFatal ==
    /\ \A name \in BaseNames :
          (runs > 0 /\ ExactlyOne(pre, name))
          => /\ ExactlyOne(store, name)
             /\ out[RoleOf(name)] \in {"NotRun", "Failed"}
             /\ ~Succeeded
             /\ (Returned /\ Reached(name))
                => (res = "CouldNotBeLoaded" /\ out[RoleOf(name)] = "Failed")
    /\ Succeeded => \A name \in BaseNames : ~ExactlyOne(store, name)

C15_CrashBetweenWrites ==
    /\ [][(pc \in {"caWriteCert", "apiserverWriteCert"} /\ res' = "crashed")
          => (/\ store' = store
              /\ NeitherExists(pre, PendingPair)
              /\ store'[KeyPath(PendingPair)].block = "RSA PRIVATE KEY"
              /\ store'[CertPath(PendingPair)] = NoFile)]_vars
    /\ []HalfWrittenIsFatal

C15_Witness ==
    /\ Returned
    /\ runs = 2
    /\ store0 = EmptyStore
    /\ prev = [res |-> "crashed", out |-> [ca |-> "Generated", api |-> "NotRun"]]
    /\ ExactlyOne(pre, APIServerCertAndKeyBaseName)
    /\ out = [ca |-> "Reused", api |-> "Failed"]
    /\ res = "CouldNotBeLoaded"
    /\ store = pre

(***************************************************************************)
(* C16.  A run that finds a valid CA pair and neither API server file,     *)
(* assembles its alt names and meets no generation or write failure        *)
(* reports Reused for the CA and Generated for the API server pair, leaves *)
(* the CA files as they were and writes a server certificate signed by     *)
(* that stored CA and bound to the alt names of this run.                  *)
(***************************************************************************)
ValidCAStored(dir) ==
    /\ Loads(dir, CACertAndKeyBaseName)
    /\ dir[CertPath(CACertAndKeyBaseName)].cert.IsCA
    /\ dir[CertPath(CACertAndKeyBaseName)].cert.pub = dir[KeyPath(CACertAndKeyBaseName)].key

C16_ReuseCAGenerateServer ==
    (Returned /\ ValidCAStored(pre) /\ NeitherExists(pre, APIServerCertAndKeyBaseName)
       /\ res \notin AssemblyErrors \cup {"SigningFailed", "PersistFailed"})
    => /\ res = "nil"
       /\ out = [ca |-> "Reused", api |-> "Generated"]
       /\ SameFiles(store, pre, CACertAndKeyBaseName)
       /\ Loads(store, APIServerCertAndKeyBaseName)
       /\ LET ca  == pre[CertPath(CACertAndKeyBaseName)].cert
              api == StoredCert(APIServerCertAndKeyBaseName)
          IN  /\ SignedBy(api, ca)
              /\ api.signer = pre[KeyPath(CACertAndKeyBaseName)].key
              /\ api.pub = StoredKey(APIServerCertAndKeyBaseName)
              /\ api.pub # ca.pub
              /\ ~api.IsCA
              /\ "ServerAuth" \in api.Usages
              /\ Range(api.DNSNames) = ExpectedDNSNames(cfg, hostname)
              /\ IPValues(api.IPs) = ExpectedIPs(cfg)

C16_Witness ==
    /\ Succeeded
    /\ runs = 1
    /\ ValidCAStored(store0)
    /\ NeitherExists(store0, APIServerCertAndKeyBaseName)
    /\ out = [ca |-> "Reused", api |-> "Generated"]
    /\ hostname = "kubernetes"
    /\ SignedBy(StoredCert(APIServerCertAndKeyBaseName), store0[CertPath(CACertAndKeyBaseName)].cert)

(***************************************************************************)
(* C17.  Starting from an empty PKI directory, in every state of every     *)
(* sequence of runs (successful, failed or crashed): if an API server file *)
(* exists, both CA files exist, load as a pair and the certificate is a    *)
(* CA.                                                                     *)
(***************************************************************************)
C17_ServerFilesImplyCA ==
    (store0 = EmptyStore /\ CertOrKeyExist(store, APIServerCertAndKeyBaseName))
    => ValidCAStored(store)

C17_Witness ==
    /\ store0 = EmptyStore
    /\ Returned
    /\ runs = 2
    /\ prev.res = "PersistFailed"
    /\ prev.out = [ca |-> "Generated", api |-> "Failed"]
    /\ CertOrKeyExist(store, APIServerCertAndKeyBaseName)
    /\ ~Loads(store, APIServerCertAndKeyBaseName)
    /\ ValidCAStored(store)

(***************************************************************************)
(* C18.  Load-phase failures are sticky.  When a run has failed because a  *)
(* pair could not be loaded (incomplete or corrupt) or because the CA      *)
(* certificate is not a CA, the directory is left in a state in which      *)
(* every later run, whatever its configuration, fails as well and changes  *)
(* no file.  (The failing run itself may have created the CA pair before   *)
(* it met the rejected API server pair; the rejected pair is never         *)
(* touched by any run.)                                                    *)
(***************************************************************************)
LoadPhaseErrors == {"CouldNotBeLoaded", "NotACertificateAuthority"}

\* a pair the load of lines 86-94 (CA) or 114-117 (API server) rejects
BadRole(dir, name) ==
    /\ CertOrKeyExist(dir, name)
    /\ \/ ~Loads(dir, name)
       \/ name = CACertAndKeyBaseName /\ NotCA(dir[CertPath(name)].cert)

\* the directory states a failed load phase leaves behind: the first pair the
\* run looks at is rejected
Stuck(dir) ==
    \/ BadRole(dir, CACertAndKeyBaseName)
    \/ ValidCAStored(dir) /\ BadRole(dir, APIServerCertAndKeyBaseName)

C18_LoadFailuresSticky ==
    /\ (Returned /\ res \in LoadPhaseErrors) => Stuck(store)
    /\ (runs > 0 /\ Stuck(pre))
       => /\ store = pre
          /\ ~Succeeded
          /\ Returned => res \in AssemblyErrors \cup LoadPhaseErrors
    /\ (runs > 1 /\ prev.res \in LoadPhaseErrors)
       => /\ Stuck(pre)
          /\ store = pre
          /\ ~Succeeded
    /\ \A name \in BaseNames :
          (runs > 0 /\ BadRole(pre, name))
          => /\ SameFiles(store, pre, name)
             /\ ~Succeeded

C18_Witness ==
    /\ Returned
    /\ runs = 2
    /\ prev.res = "NotACertificateAuthority"
    /\ res = "NotACertificateAuthority"
    /\ cfg # GoodCfg
    /\ store = store0
    /\ NonCAStored(store)

====
